---- MODULE Spec2Model ----
(***************************************************************************)
(* The hotel search page of the AppSync / Data API demo                    *)
(* (src/src/frontend/search_hotels.py, mounted by src/src/frontend/home.py)*)
(*                                                                         *)
(* Numbers.  Python floats are modelled exactly where a comparison depends *)
(* on them:                                                                *)
(*   - an "Overall" review value is held in halves (half = 2 * value; a    *)
(*     JSON true is 1.0 and false 0.0 to float()), a                       *)
(*     rating as the fraction [num, den] in lowest terms (the float the    *)
(*     code returns is the double nearest to it; 0 and 10 are doubles, so  *)
(*     range tests on the fraction and on the float agree);                *)
(*   - a coordinate is a JSON decimal with two places, held in hundredths  *)
(*     of a degree (n), in the binade [8, 16).  float(n/100) is            *)
(*     n/100 + FloatErr(n)/(100 * 2^49) exactly, and the difference of two *)
(*     such doubles is exact, so a span is the pair [n, e].                *)
(* The marker colour, the tooltip text and the map centre are functions of *)
(* the fields kept here and no statement below reads them; they are left   *)
(* out of the point and view records.                                      *)
(***************************************************************************)
EXTENDS Integers, Sequences, FiniteSets, TLC

(* ------------------------------ bounds -------------------------------- *)

\* Longest review list drawn for compute_rating_from_reviews.
MaxReviews == 3
\* Longest hotel list drawn for hotels_to_points.
MaxHotels == 3
\* Longest point list (data frame) drawn for build_map.
MaxPoints == 3
\* Longest hotel list carried by a query response in the page model.
MaxResp == 2
\* Presses of the Search button followed in one behaviour.
MaxSearches == 2

(* --------------------------- JSON values ------------------------------ *)

\* An optional JSON number: None, or the number v.
None == [some |-> FALSE, v |-> 0]
Some(x) == [some |-> TRUE, v |-> x]

\* review["ratings"]["Overall"]: absent/null, a string such as "n/a", a
\* number (half = twice its value), or a JSON boolean (half = twice what
\* float() makes of it: 2 for true, 0 for false).
OverallNone == [kind |-> "none", half |-> 0]
OverallStr == [kind |-> "str", half |-> 0]
OverallNum(h) == [kind |-> "num", half |-> h]
OverallBool(b) == [kind |-> "bool", half |-> IF b THEN 2 ELSE 0]

\* A review: null, an object without ratings, an object with a ratings
\* object, a value that is no object (a non-empty string), or an object
\* whose ratings is no object (a non-empty string).
ReviewNull == [shape |-> "null", overall |-> OverallNone]
ReviewNoRatings == [shape |-> "noratings", overall |-> OverallNone]
Review(o) == [shape |-> "ratings", overall |-> o]
ReviewText == [shape |-> "text", overall |-> OverallNone]
ReviewRatingsText == [shape |-> "ratingstext", overall |-> OverallNone]

\* hotel["reviews"]: null/absent (has = FALSE) or a list.
NoReviews == [has |-> FALSE, list |-> << >>]
Reviews(s) == [has |-> TRUE, list |-> s]

\* hotel["geo"]: null/absent (has = FALSE) or an object with optional lat, lon.
NoGeo == [has |-> FALSE, lat |-> None, lon |-> None]
Geo(lat, lon) == [has |-> TRUE, lat |-> lat, lon |-> lon]

\* An entry of the hotel list: an object, or null.
Hotel(name, geo, reviews) == [null |-> FALSE, name |-> name, geo |-> geo, reviews |-> reviews]
HotelNull == [null |-> TRUE, name |-> "", geo |-> NoGeo, reviews |-> NoReviews]

(* ----------------------------- fractions ------------------------------ *)

RECURSIVE GCD(_, _)
GCD(a, b) == IF b = 0 THEN a ELSE GCD(b, a % b)

Abs(x) == IF x < 0 THEN -x ELSE x

\* n/d in lowest terms, d > 0.
Frac(n, d) ==
    LET g == GCD(Abs(n), Abs(d))
        s == IF d < 0 THEN -1 ELSE 1
    IN [num |-> s * (n \div g), den |-> s * (d \div g)]

(* ------------------- compute_rating_from_reviews ---------------------- *)

\* isinstance(overall, (int, float)): bool is a subclass of int.
IsNumber(overall) == overall.kind \in {"num", "bool"}

\* (review or {}).get and ratings.get raise on a string (lines 77-78).
ReviewRaises(review) == review.shape \in {"text", "ratingstext"}

\* ((review or {}).get("ratings") or {}).get("Overall")
OverallOf(review) ==
    IF review.shape = "ratings" THEN review.overall ELSE OverallNone

\* The loop of lines 76-80: the numeric Overall values, in halves, in order.
RECURSIVE CollectOverall(_)
CollectOverall(reviews) ==
    IF reviews = << >> THEN << >>
    ELSE LET overall == OverallOf(Head(reviews))
             rest == CollectOverall(Tail(reviews))
         IN IF IsNumber(overall) THEN <<overall.half>> \o rest ELSE rest

RECURSIVE SumSeq(_)
SumSeq(s) == IF s = << >> THEN 0 ELSE Head(s) + SumSeq(Tail(s))

\* Mutant: the sum is doubled without being divided by the count.
TwiceMean_Sum(values) == Frac(SumSeq(values), 1)

\* avg_overall * 2.0 for a non-empty overall_values: the values are halves,
\* so avg = sum / (2 * len) and the rating is sum / len.
TwiceMean(values) == Frac(2 * SumSeq(values), 2 * Len(values))

\* What compute_rating_from_reviews gives its caller: the rating, or the
\* exception of .get on a value that is no object.
Rating(fraction) == [raised |-> FALSE, exc |-> "", num |-> fraction.num, den |-> fraction.den]
RatingRaised(exc) == [raised |-> TRUE, exc |-> exc, num |-> 0, den |-> 1]

compute_rating_from_reviews(hotel) ==
    LET reviews == IF hotel.reviews.has THEN hotel.reviews.list ELSE << >>
        overall_values == CollectOverall(reviews)
    IN IF \E i \in 1..Len(reviews) : ReviewRaises(reviews[i])
       THEN RatingRaised("AttributeError")
       ELSE IF overall_values # << >> THEN Rating(TwiceMean(overall_values))
       ELSE Rating(Frac(0, 1))

(* -------------------------- hotels_to_points -------------------------- *)

\* Mutant: only the latitude is tested.
MissingCoordinate_LatOnly(hotel) ==
    \/ ~hotel.geo.has
    \/ ~hotel.geo.lat.some

\* Mutant: "if not lat or not lon", which also drops a coordinate of 0.0.
MissingCoordinate_Falsy(hotel) ==
    \/ ~hotel.geo.has
    \/ ~hotel.geo.lat.some
    \/ ~hotel.geo.lon.some
    \/ hotel.geo.lat.v = 0
    \/ hotel.geo.lon.v = 0

\* lat is None or lon is None, with geo = hotel.get("geo") or {}
MissingCoordinate(hotel) ==
    \/ ~hotel.geo.has
    \/ ~hotel.geo.lat.some
    \/ ~hotel.geo.lon.some

\* The record appended at lines 115-123.
PointOf(hotel) ==
    LET rating == compute_rating_from_reviews(hotel)
    IN [name |-> hotel.name,
        lat |-> hotel.geo.lat.v,
        lon |-> hotel.geo.lon.v,
        rating |-> [num |-> rating.num, den |-> rating.den]]

\* What hotels_to_points gives its caller: the points, or the exception of
\* hotel.get on an entry that is null (line 96) or of
\* compute_rating_from_reviews (line 101).
Points(points) == [raised |-> FALSE, exc |-> "", points |-> points]
NoPoints(exc) == [raised |-> TRUE, exc |-> exc, points |-> << >>]

\* The loop of lines 95-123, entry by entry from the front.
RECURSIVE hotels_to_points(_)
hotels_to_points(hotels) ==
    IF hotels = << >> THEN Points(<< >>)
    ELSE LET hotel == Head(hotels)
         IN IF hotel.null THEN NoPoints("AttributeError")
            ELSE IF ~MissingCoordinate(hotel) /\ compute_rating_from_reviews(hotel).raised
            THEN NoPoints(compute_rating_from_reviews(hotel).exc)
            ELSE LET rest == hotels_to_points(Tail(hotels))
                 IN IF rest.raised \/ MissingCoordinate(hotel) THEN rest
                    ELSE Points(<<PointOf(hotel)>> \o rest.points)

(* ------------------------------ build_map ----------------------------- *)

\* response["airport"]: null, the empty object, an object whose location is
\* null, an object with a location (lat, lon in hundredths of a degree), or
\* an object whose location holds null for a coordinate.
AirportNull == [shape |-> "null", name |-> "", lat |-> 0, lon |-> 0]
AirportEmpty == [shape |-> "empty", name |-> "", lat |-> 0, lon |-> 0]
AirportNoLocation(name) == [shape |-> "nolocation", name |-> name, lat |-> 0, lon |-> 0]
Airport(name, lat, lon) == [shape |-> "located", name |-> name, lat |-> lat, lon |-> lon]
AirportNullCoordinate(name) == [shape |-> "nullcoordinate", name |-> name, lat |-> 0, lon |-> 0]

\* Python truthiness of the airport value: None and {} are falsy.
Truthy(airport) == airport.shape \notin {"null", "empty"}

\* airport and airport.get("location")
HasLocation(airport) == airport.shape \in {"located", "nullcoordinate"}

\* float(n/100) - n/100 in units of 1/(100 * 2^49), for 8 <= n/100 < 16:
\* the residue of -n * 2^49 modulo 100 nearest to zero (2^49 = 12 mod 100).
FloatErr(n) ==
    LET m == (12 * n) % 100
    IN IF m < 50 THEN -m ELSE 100 - m

RECURSIVE SeqMax(_)
SeqMax(s) ==
    IF Len(s) = 1 THEN Head(s)
    ELSE LET r == SeqMax(Tail(s)) IN IF Head(s) > r THEN Head(s) ELSE r

RECURSIVE SeqMin(_)
SeqMin(s) ==
    IF Len(s) = 1 THEN Head(s)
    ELSE LET r == SeqMin(Tail(s)) IN IF Head(s) < r THEN Head(s) ELSE r

\* max(values) - min(values) as a float: n hundredths plus e units of error.
FloatRange(values) ==
    LET hi == SeqMax(values)
        lo == SeqMin(values)
    IN [n |-> hi - lo, e |-> FloatErr(hi) - FloatErr(lo)]

\* max(lat_range, lon_range) on floats.
FloatMax(a, b) ==
    IF a.n > b.n \/ (a.n = b.n /\ a.e >= b.e) THEN a ELSE b

\* The float literals of lines 204-210: n hundredths, plus err / scale units
\* of error (0.1 and 0.2 are not doubles; 0.5 and 1.0 are).
Deg1_0 == [n |-> 100, scale |-> 1, err |-> 0]
Deg0_5 == [n |-> 50, scale |-> 1, err |-> 0]
Deg0_2 == [n |-> 20, scale |-> 64, err |-> 40]
Deg0_1 == [n |-> 10, scale |-> 128, err |-> 40]

\* Mutant: max_range >= literal
Exceeds_OrEqual(range, literal) ==
    \/ range.n > literal.n
    \/ range.n = literal.n /\ range.e * literal.scale >= literal.err

\* max_range > literal
Exceeds(range, literal) ==
    \/ range.n > literal.n
    \/ range.n = literal.n /\ range.e * literal.scale > literal.err

\* The if / elif chain of lines 204-213.
ZoomFor(max_range) ==
    IF Exceeds(max_range, Deg1_0) THEN 8
    ELSE IF Exceeds(max_range, Deg0_5) THEN 9
    ELSE IF Exceeds(max_range, Deg0_2) THEN 10
    ELSE IF Exceeds(max_range, Deg0_1) THEN 11
    ELSE 12

Column(df, field) == [i \in 1..Len(df) |-> df[i][field]]

\* all_lats / all_lons of lines 187-193.
AllCoords(df_hotels, airport, field) ==
    Column(df_hotels, field)
        \o (IF HasLocation(airport) THEN <<airport[field]>> ELSE << >>)

\* lines 199-201
MaxRange(df_hotels, airport) ==
    FloatMax(FloatRange(AllCoords(df_hotels, airport, "lat")),
             FloatRange(AllCoords(df_hotels, airport, "lon")))

\* What build_map gives its caller: the deck, or the exception of
\* float(None) on a null coordinate of the airport (lines 192-193).
Deck(layers, zoom) ==
    [raised |-> FALSE, exc |-> "", layers |-> layers, zoom |-> zoom, pitch |-> 0, bearing |-> 0]
NoDeck == [raised |-> FALSE, exc |-> "", layers |-> << >>, zoom |-> 0, pitch |-> 0, bearing |-> 0]
DeckRaised(exc) == [NoDeck EXCEPT !.raised = TRUE, !.exc = exc]

build_map(df_hotels, airport) ==
    IF airport.shape = "nullcoordinate" THEN DeckRaised("TypeError")
    ELSE Deck(<<"hotels">> \o (IF HasLocation(airport) THEN <<"airport">> ELSE << >>),
              ZoomFor(MaxRange(df_hotels, airport)))

(* ------------------------ the query and its reply --------------------- *)

\* payload["errors"]: absent, or a list.
NoErrors == [has |-> FALSE, list |-> << >>]
Errors(s) == [has |-> TRUE, list |-> s]

\* result["hotels"]: key absent, null, or a list.
HotelsAbsent == [shape |-> "absent", list |-> << >>]
HotelsNull == [shape |-> "null", list |-> << >>]
HotelList(s) == [shape |-> "list", list |-> s]

\* result["airport"] when the key is absent.
AirportAbsent == [shape |-> "absent", name |-> "", lat |-> 0, lon |-> 0]

\* What requests.post / resp.json() give back.  transport: "ok" (a JSON
\* object), "failed" (requests.post raises) or "notjson" (resp.json() raises).
\* shape: how far the object goes: "nodata" (no data key), "datanull",
\* "noresult" (data without listHotelsNearAirport), "resultnull", "result".
Payload(transport, errors, shape, hotels, airport) ==
    [transport |-> transport, errors |-> errors, shape |-> shape,
     hotels |-> hotels, airport |-> airport]

NoResponse == Payload("none", NoErrors, "nodata", HotelsAbsent, AirportAbsent)

\* What fetch_hotels gives render: an exception, or the hotels and airport.
Raised(exc, errors) ==
    [raised |-> TRUE, exc |-> exc, errors |-> errors,
     hotels |-> HotelsAbsent, airport |-> AirportNull]
Returned(hotels, airport) ==
    [raised |-> FALSE, exc |-> "", errors |-> << >>,
     hotels |-> hotels, airport |-> airport]

\* Mutant: the errors of the payload are not looked at.
fetch_hotels_IgnoringErrors(payload) ==
    IF payload.transport = "failed" THEN Raised("ConnectionError", << >>)
    ELSE IF payload.transport = "notjson" THEN Raised("JSONDecodeError", << >>)
    ELSE IF payload.shape \in {"datanull", "resultnull"} THEN Raised("AttributeError", << >>)
    ELSE IF payload.shape \in {"nodata", "noresult"} THEN Returned(HotelList(<< >>), AirportNull)
    ELSE Returned(IF payload.hotels.shape = "absent" THEN HotelList(<< >>) ELSE payload.hotels,
                  IF payload.airport.shape = "absent" THEN AirportNull ELSE payload.airport)

fetch_hotels(payload) ==
    IF payload.transport = "failed" THEN Raised("ConnectionError", << >>)
    ELSE IF payload.transport = "notjson" THEN Raised("JSONDecodeError", << >>)
    ELSE IF payload.errors.list # << >> THEN Raised("RuntimeError", payload.errors.list)
    ELSE IF payload.shape \in {"datanull", "resultnull"} THEN Raised("AttributeError", << >>)
    ELSE IF payload.shape \in {"nodata", "noresult"} THEN Returned(HotelList(<< >>), AirportNull)
    ELSE Returned(IF payload.hotels.shape = "absent" THEN HotelList(<< >>) ELSE payload.hotels,
                  IF payload.airport.shape = "absent" THEN AirportNull ELSE payload.airport)

(* --------------------------- what the page shows ---------------------- *)

NoArgs == [missing |-> << >>, exc |-> "", errors |-> << >>, name |-> "", km |-> 0]

Element(kind, text, args, deck, points) ==
    [kind |-> kind, text |-> text, args |-> args, deck |-> deck, points |-> points]

\* st.error / st.warning with the values formatted into the message
StError(text, args) == Element("error", text, args, NoDeck, << >>)
StWarning(text, args) == Element("warning", text, args, NoDeck, << >>)
\* st.pydeck_chart(deck), with the data frame of the hotel layer
StChart(deck, points) == Element("chart", "", NoArgs, deck, points)
StLegend == Element("markdown", "Legend", NoArgs, NoDeck, << >>)
\* lines 300-301: st.expander, then st.json inside it
StExpander == Element("expander", "Raw response", NoArgs, NoDeck, << >>)
StJson == Element("json", "", NoArgs, NoDeck, << >>)
\* The box Streamlit puts on the page for an exception that leaves the script
StException(exc) == Element("exception", "", [NoArgs EXCEPT !.exc = exc], NoDeck, << >>)

\* The st.* calls of a run in order (what it writes when none is stopped),
\* the steps it took, and the exception that left render ("" when none did).
Shown(elements, steps) == [elements |-> elements, steps |-> steps, raised |-> ""]
Escaped(exc, steps) == [elements |-> << >>, steps |-> steps, raised |-> exc]

\* step, then the rest
After(step, rest) == [rest EXCEPT !.steps = <<step>> \o rest.steps]

(* ------------------------------- render ------------------------------- *)

\* validate_required: the labels of the empty settings, in dict order.
validate_required(endpoint_, api_key_) ==
    (IF endpoint_ = "" THEN <<"GraphQL Endpoint">> ELSE << >>)
        \o (IF api_key_ = "" THEN <<"GraphQL API Key">> ELSE << >>)

\* Mutant: the airport name is not checked.
NameMissing_Unchecked(name) == FALSE

\* not airport_name
NameMissing(name) == name = ""

\* not hotels: None and [] are falsy.
HotelsFalsy(hotels) == hotels.shape = "null" \/ hotels.list = << >>

\* lines 283-301: project, then plot unless nothing is plottable.
PlotStage(hotels, airport) ==
    LET projected == hotels_to_points(hotels.list)
        points == projected.points
        deck == build_map(points, airport)
    IN IF projected.raised
       THEN Escaped(projected.exc, <<"hotels_to_points">>)
       ELSE IF points = << >>
       THEN Shown(<<StWarning("No hotel coordinates to plot on the map.", NoArgs)>>,
                  <<"hotels_to_points", "not points">>)
       ELSE IF deck.raised
       THEN Escaped(deck.exc, <<"hotels_to_points", "not points", "build_map">>)
       ELSE Shown(<<StChart(deck, points), StLegend, StExpander, StJson>>,
                  <<"hotels_to_points", "not points", "build_map", "st.pydeck_chart">>)

\* Mutant: the empty hotel list is not tested.
HotelStage_NoEmptyTest(hotels, airport, name, km) ==
    After("not hotels", PlotStage(hotels, airport))

\* lines 279-281, then the rest
HotelStage(hotels, airport, name, km) ==
    IF HotelsFalsy(hotels)
    THEN Shown(<<StWarning("No hotels found within", [NoArgs EXCEPT !.name = name, !.km = km])>>,
               <<"not hotels">>)
    ELSE After("not hotels", PlotStage(hotels, airport))

\* Mutant: without an airport the hotels are framed on their own.
AirportStage_HotelOnlyFallback(hotels, airport, name, km) ==
    IF ~Truthy(airport) /\ HotelsFalsy(hotels)
    THEN Shown(<<StError("Airport not found", [NoArgs EXCEPT !.name = name])>>,
               <<"not airport">>)
    ELSE After("not airport", HotelStage(hotels, airport, name, km))

\* lines 275-277, then the rest
AirportStage(hotels, airport, name, km) ==
    IF ~Truthy(airport)
    THEN Shown(<<StError("Airport not found", [NoArgs EXCEPT !.name = name])>>,
               <<"not airport">>)
    ELSE After("not airport", HotelStage(hotels, airport, name, km))

\* lines 262-273, then the rest: what render does with the reply.
AfterFetch(result, name, km) ==
    IF result.raised
    THEN Shown(<<StError("GraphQL error", [NoArgs EXCEPT !.exc = result.exc, !.errors = result.errors])>>,
               <<"except">>)
    ELSE AirportStage(result.hotels, result.airport, name, km)

(* ------------------------------- state -------------------------------- *)

VARIABLES
    entry,          \* how the app was started: "home" (home.py) or "standalone"
    endpoint,       \* st.session_state["gql_endpoint"]
    api_key,        \* st.session_state["api_key"]
    airport_name,   \* airport_name as render last read it (line 248)
    within_km,      \* within_km as render last read it (line 250)
    widgets,        \* the values the input widgets hold in the browser
    visible,        \* the widgets of the search page that are on the screen
    phase,          \* where the script is: "Idle" and "Done" (not running),
                    \* "AtEndpoint", "AtApiKey", "AtGate", "AtTitle",
                    \* "AtColumns", "AtAirportName", "AtDistance",
                    \* "AtCaption", "AtButton" (before that call),
                    \* "Requesting" (inside requests.post),
                    \* "Writing" (before the next of its writes), "Stopped"
    pressed,        \* the run was asked for with Search pressed
    pending,        \* the rerun asked for while the script is running
    todo,           \* the st.* calls the run has still to make
    request,        \* the body of the query in flight or last sent
    response,       \* the reply the current search received
    shown,          \* what the current script run has written to the page
    stale,          \* sidebar widgets whose identity the next run changes
    presses,        \* presses of Search so far
    posts,          \* queries sent to the API so far
    runs,           \* replies handed to render so far
    rejected,       \* runs in which render refused the press at validation
    pc,             \* "page", or "call" / "return" of a function under test
    arg,            \* the input of the function under test
    ret             \* its result

pageVars == <<entry, endpoint, api_key, airport_name, within_km, widgets, visible,
              phase, pressed, pending, todo, request, response, shown, stale,
              presses, posts, runs, rejected>>
vars == <<entry, endpoint, api_key, airport_name, within_km, widgets, visible,
          phase, pressed, pending, todo, request, response, shown, stale,
          presses, posts, runs, rejected, pc, arg, ret>>

(* ------------------------------- inputs ------------------------------- *)

BoundedSeq(S, n) == UNION {[1..k -> S] : k \in 0..n}

Endpoints == {"", "https://example.appsync-api/graphql"}
ApiKeys == {"", "da2-key"}
AirportNames == {"", "Heathrow"}
Distances == {50, 100}

\* Overall values in halves: 0, 4, 4.5 and 5 are on the 0-5 scale of the
\* data set; -1 and 6 are numbers off it.
OverallHalves == {-2, 0, 8, 9, 10, 12}
ReviewPool ==
    {ReviewNull, ReviewNoRatings, Review(OverallNone), Review(OverallStr),
     Review(OverallBool(TRUE)), Review(OverallBool(FALSE)), ReviewText, ReviewRatingsText}
        \cup {Review(OverallNum(h)) : h \in OverallHalves}
RatingInputs ==
    {Hotel("H", NoGeo, NoReviews)}
        \cup {Hotel("H", NoGeo, Reviews(s)) : s \in BoundedSeq(ReviewPool, MaxReviews)}

\* Entries for hotels_to_points: every way a coordinate can be missing, a
\* latitude of exactly 0.0, two names so that repeats and order show, and
\* the null entry.
GeoPool ==
    {NoGeo, Geo(None, None), Geo(Some(1000), None), Geo(None, Some(1000)),
     Geo(Some(0), Some(1000)), Geo(Some(1000), Some(1020))}
ProjectorHotels ==
    {Hotel("A", g, Reviews(<<Review(OverallNum(8)), Review(OverallNum(10))>>)) : g \in GeoPool}
        \cup {Hotel("B", g, NoReviews) : g \in GeoPool}
        \cup {HotelNull}
ProjectorInputs == BoundedSeq(ProjectorHotels, MaxHotels)

\* Data frames and airports for build_map, in hundredths of a degree.
LatGrid == {1000, 1005, 1010, 1020, 1050, 1100}
LonGrid == {1010, 1030}
FramePoints ==
    {[name |-> "P", lat |-> la, lon |-> lo, rating |-> Frac(0, 1)] : la \in LatGrid, lo \in LonGrid}
FrameAirports ==
    {AirportNoLocation("X"), AirportNullCoordinate("X")}
        \cup {Airport("X", la, lo) : la \in LatGrid, lo \in LonGrid}
FrameInputs ==
    {[df_hotels |-> df, airport |-> a] :
        df \in BoundedSeq(FramePoints, MaxPoints) \ {<< >>}, a \in FrameAirports}

\* Query replies for the page.
PageHotels ==
    {Hotel("A", Geo(Some(1000), Some(1000)),
           Reviews(<<Review(OverallNum(8)), Review(OverallNum(10)), Review(OverallStr)>>)),
     Hotel("C", Geo(Some(1005), None), Reviews(<< >>)),
     HotelNull}
PageHotelLists ==
    {HotelsAbsent, HotelsNull} \cup {HotelList(s) : s \in BoundedSeq(PageHotels, MaxResp)}
PageAirports ==
    {AirportAbsent, AirportNull, AirportEmpty, AirportNoLocation("Heathrow"),
     Airport("Heathrow", 1010, 1000), AirportNullCoordinate("Heathrow")}
PageErrors == {NoErrors, Errors(<<"Unauthorized">>)}
Payloads ==
    {Payload("failed", NoErrors, "nodata", HotelsAbsent, AirportAbsent),
     Payload("notjson", NoErrors, "nodata", HotelsAbsent, AirportAbsent)}
        \cup {Payload("ok", e, sh, HotelsAbsent, AirportAbsent) :
                e \in PageErrors \cup {Errors(<< >>)},
                sh \in {"nodata", "datanull", "noresult", "resultnull"}}
        \cup {Payload("ok", e, "result", h, a) :
                e \in PageErrors, h \in PageHotelLists, a \in PageAirports}
        \cup {Payload("ok", Errors(<< >>), "result", HotelList(<<h>>), a) :
                h \in PageHotels, a \in PageAirports}

(* ------------------------------ the page ------------------------------ *)

NoRequest == [endpoint |-> "", api_key |-> "", airportName |-> "", withinKm |-> 0]
NothingShown == Shown(<< >>, << >>)

\* home.py lines 64-72: the labels of the empty settings, in list order.
home_missing(endpoint_, api_key_) ==
    (IF endpoint_ = "" THEN <<"AppSync GraphQL Endpoint">> ELSE << >>)
        \o (IF api_key_ = "" THEN <<"AppSync API Key">> ELSE << >>)

\* home.py lines 73-74: the error shown in place of the search page.
GateError(endpoint_, api_key_) ==
    StError("Please fill the required connection settings in the sidebar",
            [NoArgs EXCEPT !.missing = home_missing(endpoint_, api_key_)])

\* An exception that leaves render: home.py catches it and writes "Failed to
\* load page: <exc>" (lines 82-83); on its own the script ends with it and
\* Streamlit shows the exception.
Mounted(entry_, out) ==
    IF out.raised = "" THEN out
    ELSE IF entry_ = "home"
    THEN [out EXCEPT !.elements = <<StError("Failed to load page", [NoArgs EXCEPT !.exc = out.raised])>>]
    ELSE [out EXCEPT !.elements = <<StException(out.raised)>>]

\* The values of the four input widgets.
Widgets(endpoint_, api_key_, name, km) ==
    [endpoint |-> endpoint_, api_key |-> api_key_, airport_name |-> name, within_km |-> km]

\* A request for a rerun, and whether Search is pressed in it.
NoPending == [has |-> FALSE, press |-> FALSE]
Pending(press) == [has |-> TRUE, press |-> press]

\* home.py lines 46-55: the sidebar inputs have no key and take their
\* default from session state, so the run after an accepted edit creates the
\* widget anew with the stored value as default, and a value typed into the
\* old widget in between is lost.
Accepted(widget, stored, typed) == IF widget \in stale THEN stored ELSE typed

\* The widgets of the search page: the two inputs and the button.
SearchWidgets == {"airport_name", "within_km", "search"}

\* The first run of the script has ended and nothing has been touched.
InitPage ==
    /\ entry \in {"home", "standalone"}
    /\ endpoint = ""
    /\ api_key = ""
    /\ airport_name = ""
    /\ within_km = 50
    /\ widgets = Widgets("", "", "", 50)
    /\ visible = (IF entry = "standalone" THEN SearchWidgets ELSE {})
    /\ phase = "Idle"
    /\ pressed = FALSE
    /\ pending = NoPending
    /\ todo = << >>
    /\ request = NoRequest
    /\ response = NoResponse
    /\ shown = (IF entry = "home" THEN Shown(<<GateError("", "")>>, << >>) ELSE NothingShown)
    /\ stale = {}
    /\ presses = 0
    /\ posts = 0
    /\ runs = 0
    /\ rejected = 0

\* A run of the script begins, with Search pressed in it or not.
StartRun(press) ==
    /\ phase' = (IF entry = "home" THEN "AtEndpoint" ELSE "AtTitle")
    /\ pressed' = press
    /\ pending' = NoPending
    /\ todo' = << >>
    /\ request' = NoRequest
    /\ response' = NoResponse
    /\ shown' = NothingShown
    /\ UNCHANGED <<entry, endpoint, api_key, airport_name, within_km, visible, stale,
                   posts, runs, rejected, pc, arg, ret>>

\* A widget event in the browser, leaving the widgets at w.  With no script
\* running the rerun starts at once.  Otherwise the request waits for the
\* script's next st.* call, merged with the one already waiting: the latest
\* values, and Search pressed if it was pressed in either.
Event(w, press) ==
    /\ pc = "page"
    /\ widgets' = w
    /\ IF phase \in {"Idle", "Done"}
       THEN StartRun(press)
       ELSE /\ pending' = Pending(pending.press \/ press)
            /\ UNCHANGED <<entry, endpoint, api_key, airport_name, within_km, visible,
                           phase, pressed, todo, request, response, shown, stale,
                           posts, runs, rejected, pc, arg, ret>>

\* The user edits the endpoint in the sidebar of home.py.
EditEndpoint ==
    /\ entry = "home"
    /\ \E e \in Endpoints \ {widgets.endpoint} : Event([widgets EXCEPT !.endpoint = e], FALSE)
    /\ UNCHANGED presses

\* The user edits the API key in the sidebar of home.py.
EditApiKey ==
    /\ entry = "home"
    /\ \E k \in ApiKeys \ {widgets.api_key} : Event([widgets EXCEPT !.api_key = k], FALSE)
    /\ UNCHANGED presses

\* The user edits the airport name.
EditAirportName ==
    /\ "airport_name" \in visible
    /\ \E n \in AirportNames \ {widgets.airport_name} :
            Event([widgets EXCEPT !.airport_name = n], FALSE)
    /\ UNCHANGED presses

\* The user edits the distance.
EditDistance ==
    /\ "within_km" \in visible
    /\ \E km \in Distances \ {widgets.within_km} :
            Event([widgets EXCEPT !.within_km = km], FALSE)
    /\ UNCHANGED presses

\* The user presses Search.
PressSearch ==
    /\ "search" \in visible
    /\ presses < MaxSearches
    /\ presses' = presses + 1
    /\ Event(widgets, TRUE)

\* The user asks for a rerun with no input changed (Rerun in the menu, R).
PlainRerun ==
    /\ Event(widgets, FALSE)
    /\ UNCHANGED presses

\* The script makes an st.* call only with no rerun waiting.
Calls(at) == pc = "page" /\ phase = at /\ ~pending.has

\* home.py lines 45-50: the endpoint input and the write to session state.
SidebarEndpoint ==
    /\ Calls("AtEndpoint")
    /\ endpoint' = Accepted("endpoint", endpoint, widgets.endpoint)
    /\ stale' = (stale \ {"endpoint"}) \cup (IF endpoint' # endpoint THEN {"endpoint"} ELSE {})
    /\ widgets' = [widgets EXCEPT !.endpoint = endpoint']
    /\ phase' = "AtApiKey"
    /\ UNCHANGED <<entry, api_key, airport_name, within_km, visible, pressed, pending, todo,
                   request, response, shown, presses, posts, runs, rejected, pc, arg, ret>>

\* home.py lines 51-55: the API key input and the write to session state.
SidebarApiKey ==
    /\ Calls("AtApiKey")
    /\ api_key' = Accepted("api_key", api_key, widgets.api_key)
    /\ stale' = (stale \ {"api_key"}) \cup (IF api_key' # api_key THEN {"api_key"} ELSE {})
    /\ widgets' = [widgets EXCEPT !.api_key = api_key']
    /\ phase' = "AtGate"
    /\ UNCHANGED <<entry, endpoint, airport_name, within_km, visible, pressed, pending, todo,
                   request, response, shown, presses, posts, runs, rejected, pc, arg, ret>>

\* home.py lines 57-79: the tabs, and either the error in place of the
\* search page, which ends the run, or the call of search_hotels.render.  A
\* run that ends without the search page leaves its inputs and its button
\* out, and Streamlit forgets the value of a widget a finished run did not
\* render: they are back at "" and 50 when the page shows again.
Gate ==
    /\ Calls("AtGate")
    /\ IF home_missing(endpoint, api_key) # << >>
       THEN /\ shown' = Shown(<<GateError(endpoint, api_key)>>, << >>)
            /\ phase' = "Idle"
            /\ visible' = {}
            /\ widgets' = [widgets EXCEPT !.airport_name = "", !.within_km = 50]
       ELSE /\ phase' = "AtTitle"
            /\ UNCHANGED <<shown, visible, widgets>>
    /\ UNCHANGED <<entry, endpoint, api_key, airport_name, within_km, pressed, pending, todo,
                   request, response, stale, presses, posts, runs, rejected, pc, arg, ret>>

\* search_hotels.py line 243: the title.
Title ==
    /\ Calls("AtTitle")
    /\ phase' = "AtColumns"
    /\ UNCHANGED <<entry, endpoint, api_key, airport_name, within_km, widgets, visible,
                   pressed, pending, todo, request, response, shown, stale, presses,
                   posts, runs, rejected, pc, arg, ret>>

\* line 246: the two columns.
Columns ==
    /\ Calls("AtColumns")
    /\ phase' = "AtAirportName"
    /\ UNCHANGED <<entry, endpoint, api_key, airport_name, within_km, widgets, visible,
                   pressed, pending, todo, request, response, shown, stale, presses,
                   posts, runs, rejected, pc, arg, ret>>

\* lines 247-248: the airport name input; the run reads its value.  What a
\* run has drawn stays on the screen when the run is stopped.
AirportNameInput ==
    /\ Calls("AtAirportName")
    /\ airport_name' = widgets.airport_name
    /\ visible' = visible \cup {"airport_name"}
    /\ phase' = "AtDistance"
    /\ UNCHANGED <<entry, endpoint, api_key, within_km, widgets, pressed, pending, todo,
                   request, response, shown, stale, presses, posts, runs, rejected,
                   pc, arg, ret>>

\* lines 249-250: the distance input; the run reads its value.
DistanceInput ==
    /\ Calls("AtDistance")
    /\ within_km' = widgets.within_km
    /\ visible' = visible \cup {"within_km"}
    /\ phase' = "AtCaption"
    /\ UNCHANGED <<entry, endpoint, api_key, airport_name, widgets, pressed, pending, todo,
                   request, response, shown, stale, presses, posts, runs, rejected,
                   pc, arg, ret>>

\* line 252: the caption.
Caption ==
    /\ Calls("AtCaption")
    /\ phase' = "AtButton"
    /\ UNCHANGED <<entry, endpoint, api_key, airport_name, within_km, widgets, visible,
                   pressed, pending, todo, request, response, shown, stale, presses,
                   posts, runs, rejected, pc, arg, ret>>

\* The button branch of render up to its first st.* call or to the call of
\* requests.post (lines 255-262).
Search ==
    LET missing == validate_required(endpoint, api_key)
    IN IF missing # << >>
       THEN /\ shown' = Shown(<< >>, <<"validate_required">>)
            /\ todo' = <<StError("Please fill the required connection settings",
                                 [NoArgs EXCEPT !.missing = missing])>>
            /\ phase' = "Writing"
            /\ rejected' = rejected + 1
            /\ UNCHANGED <<request, posts>>
       ELSE IF NameMissing(airport_name)
       THEN /\ shown' = Shown(<< >>, <<"validate_required", "not airport_name">>)
            /\ todo' = <<StError("Please enter an airport name", NoArgs)>>
            /\ phase' = "Writing"
            /\ rejected' = rejected + 1
            /\ UNCHANGED <<request, posts>>
       ELSE /\ shown' = Shown(<< >>, <<"validate_required", "not airport_name", "requests.post">>)
            /\ todo' = << >>
            /\ phase' = "Requesting"
            /\ request' = [endpoint |-> endpoint, api_key |-> api_key,
                           airportName |-> airport_name, withinKm |-> within_km]
            /\ posts' = posts + 1
            /\ UNCHANGED rejected

\* line 254: the button; without a press the run ends here.
Button ==
    /\ Calls("AtButton")
    /\ visible' = visible \cup {"search"}
    /\ IF pressed
       THEN Search
       ELSE /\ phase' = "Idle"
            /\ UNCHANGED <<shown, todo, request, posts, rejected>>
    /\ UNCHANGED <<entry, endpoint, api_key, airport_name, within_km, widgets, pressed,
                   pending, response, stale, presses, runs, pc, arg, ret>>

\* requests.post returns (or raises), and render goes on to its next st.*
\* call: the except branch, the airport and hotel tests, hotels_to_points
\* and build_map make none.
Respond ==
    /\ pc = "page"
    /\ phase = "Requesting"
    /\ \E payload \in Payloads :
        /\ response' = payload
        /\ LET out == Mounted(entry, AfterFetch(fetch_hotels(payload), airport_name, within_km))
           IN /\ todo' = out.elements
              /\ shown' = [elements |-> << >>, steps |-> shown.steps \o out.steps,
                           raised |-> out.raised]
    /\ phase' = "Writing"
    /\ runs' = runs + 1
    /\ UNCHANGED <<entry, endpoint, api_key, airport_name, within_km, widgets, visible,
                   pressed, pending, request, stale, presses, posts, rejected, pc, arg, ret>>

\* The next st.* call of the run after validation or the reply (lines 257,
\* 260, 273, 276, 280, 285, 291, 294, 300, 301, home.py line 83); the run
\* ends with the last.
Write ==
    /\ Calls("Writing")
    /\ shown' = [shown EXCEPT !.elements = Append(@, Head(todo))]
    /\ todo' = Tail(todo)
    /\ phase' = (IF Tail(todo) = << >> THEN "Done" ELSE "Writing")
    /\ UNCHANGED <<entry, endpoint, api_key, airport_name, within_km, widgets, visible,
                   pressed, pending, request, response, stale, presses, posts, runs,
                   rejected, pc, arg, ret>>

\* With a rerun waiting, the st.* call the script comes to raises Streamlit's
\* stop exception, which no "except Exception" catches (search_hotels.py
\* line 271, home.py line 82): the call writes nothing and the run is over.
Stop ==
    /\ pc = "page"
    /\ phase \in {"AtEndpoint", "AtApiKey", "AtGate", "AtTitle", "AtColumns", "AtAirportName",
                  "AtDistance", "AtCaption", "AtButton", "Writing"}
    /\ pending.has
    /\ phase' = "Stopped"
    /\ todo' = << >>
    /\ UNCHANGED <<entry, endpoint, api_key, airport_name, within_km, widgets, visible,
                   pressed, pending, request, response, shown, stale, presses, posts,
                   runs, rejected, pc, arg, ret>>

\* The rerun that waited starts once the stopped run is gone.
RunPending ==
    /\ pc = "page"
    /\ phase = "Stopped"
    /\ StartRun(pending.press)
    /\ UNCHANGED <<widgets, presses>>

Init == InitPage /\ pc = "page" /\ arg = 0 /\ ret = 0

Next ==
    \/ EditEndpoint
    \/ EditApiKey
    \/ EditAirportName
    \/ EditDistance
    \/ PressSearch
    \/ PlainRerun
    \/ SidebarEndpoint
    \/ SidebarApiKey
    \/ Gate
    \/ Title
    \/ Columns
    \/ AirportNameInput
    \/ DistanceInput
    \/ Caption
    \/ Button
    \/ Respond
    \/ Write
    \/ Stop
    \/ RunPending

Spec == Init /\ [][Next]_vars

(* ----------------------- the functions on their own ------------------- *)

InitCall(inputs) ==
    /\ InitPage
    /\ entry = "standalone"
    /\ pc = "call"
    /\ arg \in inputs
    /\ ret = 0

Return(value) ==
    /\ pc = "call"
    /\ pc' = "return"
    /\ ret' = value
    /\ UNCHANGED <<arg, pageVars>>

CallRating == Return(compute_rating_from_reviews(arg))
SpecRating == InitCall(RatingInputs) /\ [][CallRating]_vars

CallProjector == Return(hotels_to_points(arg))
SpecProjector == InitCall(ProjectorInputs) /\ [][CallProjector]_vars

CallBuildMap == Return(build_map(arg.df_hotels, arg.airport))
SpecFrame == InitCall(FrameInputs) /\ [][CallBuildMap]_vars

(* =========================== the statements =========================== *)

\* The error taxonomy applied to what a search writes to the page (the error
\* home.py shows in place of the search page is not the end of a search).
\* "Unhandled" is an exception that left render.
OutcomeOf(element) ==
    IF element.kind = "chart" THEN "Success"
    ELSE IF element.kind = "warning" /\ element.text = "No hotels found within" THEN "NoResults"
    ELSE IF element.kind = "warning" /\ element.text = "No hotel coordinates to plot on the map."
        THEN "NoPlottablePoints"
    ELSE IF element.kind = "error" /\ element.text = "Airport not found" THEN "ResolutionFailed"
    ELSE IF element.kind = "error" /\ element.text = "GraphQL error" THEN "TransportError"
    ELSE IF element.kind = "error"
            /\ element.text \in {"Please fill the required connection settings",
                                 "Please enter an airport name"}
        THEN "InputRejected"
    ELSE IF element.kind = "exception"
            \/ (element.kind = "error" /\ element.text = "Failed to load page")
        THEN "Unhandled"
    ELSE "none"

Outcomes(sh) == {OutcomeOf(sh.elements[i]) : i \in 1..Len(sh.elements)} \ {"none"}

Did(step) == \E i \in 1..Len(shown.steps) : shown.steps[i] = step
ChartShown == \E i \in 1..Len(shown.elements) : shown.elements[i].kind = "chart"

HasBothCoordinates(hotel) ==
    ~hotel.null /\ hotel.geo.has /\ hotel.geo.lat.some /\ hotel.geo.lon.some

\* The current search has had its reply; its run is writing, reached its
\* end (Finished) or was stopped for a rerun the user asked for.
Replied == pc = "page" /\ phase \in {"Writing", "Done", "Stopped"} /\ response.transport # "none"
Finished == phase = "Done"

\* The reply is a well-formed object without errors: fetch_hotels returns.
ReplyReturned ==
    /\ Replied
    /\ response.transport = "ok"
    /\ response.errors.list = << >>
    /\ response.shape \in {"nodata", "noresult", "result"}

ReplyAirportResolved ==
    response.shape = "result"
        /\ response.airport.shape \in {"nolocation", "located", "nullcoordinate"}

ReplyHotels == IF response.shape = "result" THEN response.hotels.list ELSE << >>

ReplyHasGeolocatedHotel ==
    \E i \in 1..Len(ReplyHotels) : HasBothCoordinates(ReplyHotels[i])

\* Every entry of the hotel list is a hotel object.
ReplyHotelsAreRecords == \A i \in 1..Len(ReplyHotels) : ~ReplyHotels[i].null

\* The settings in session state and the airport name the run read.
InputsValid == endpoint # "" /\ api_key # "" /\ airport_name # ""

\* C1: when the reply of an airport-proximity query carries no resolved
\* airport, the run goes to the "Airport '<name>' not found" error straight
\* from the airport test: hotels_to_points is not called and no map is
\* built, whatever hotels the reply holds, and a run that reaches its end
\* has written that error and nothing else.
C1_UnresolvedAirportHalts ==
    (ReplyReturned /\ ~ReplyAirportResolved) =>
        /\ Did("not airport")
        /\ ~Did("not hotels")
        /\ ~Did("hotels_to_points")
        /\ ~Did("build_map")
        /\ ~ChartShown
        /\ shown.raised = ""
        /\ Finished =>
            /\ shown.elements = <<StError("Airport not found", [NoArgs EXCEPT !.name = airport_name])>>
            /\ Outcomes(shown) = {"ResolutionFailed"}

C1_Witness ==
    /\ ReplyReturned
    /\ Finished
    /\ ~ReplyAirportResolved
    /\ ReplyHasGeolocatedHotel
    /\ Outcomes(shown) = {"ResolutionFailed"}

\* C2: a reply with a non-empty error list goes to the GraphQL error message
\* carrying those errors, and nothing of the reply's data is used: the
\* airport is not looked at, no hotel is projected, no map is built; a run
\* that reaches its end has written that error and nothing else.
C2_ErrorsAreHardFailure ==
    (Replied /\ response.transport = "ok" /\ response.errors.list # << >>) =>
        /\ Did("except")
        /\ ~Did("not airport")
        /\ ~Did("not hotels")
        /\ ~Did("hotels_to_points")
        /\ ~Did("build_map")
        /\ ~ChartShown
        /\ shown.raised = ""
        /\ Finished =>
            /\ shown.elements = <<StError("GraphQL error",
                    [NoArgs EXCEPT !.exc = "RuntimeError", !.errors = response.errors.list])>>
            /\ Outcomes(shown) = {"TransportError"}

C2_Witness ==
    /\ Replied
    /\ Finished
    /\ response.errors.list # << >>
    /\ ReplyAirportResolved
    /\ ReplyHasGeolocatedHotel
    /\ Outcomes(shown) = {"TransportError"}

\* C5: build_map runs, and a chart reaches the page, only in a search whose
\* reply resolved the airport and holds a hotel with both coordinates, and
\* a chart only after build_map returned; with the airport resolved and no
\* hotels build_map does not run, no chart is shown and a run that reaches
\* its end has written the "No hotels found" warning.
C5_MapOnlyWithAirportAndGeolocatedHotel ==
    pc = "page" =>
        /\ Did("build_map") => (ReplyReturned /\ ReplyAirportResolved /\ ReplyHasGeolocatedHotel)
        /\ ChartShown => (Did("build_map") /\ shown.raised = "")
        /\ (ReplyReturned /\ ReplyAirportResolved /\ ReplyHotels = << >>) =>
                /\ ~ChartShown
                /\ ~Did("build_map")
                /\ Finished => Outcomes(shown) = {"NoResults"}

C5_Witness ==
    /\ ChartShown
    /\ ReplyAirportResolved
    /\ \E i \in 1..Len(ReplyHotels) : ~HasBothCoordinates(ReplyHotels[i])

\* C6: with the airport resolved, in a run that reaches its end, no hotels
\* gives the "No hotels found" warning, hotel objects of which none has both
\* coordinates give the different "No hotel coordinates" warning, and a
\* hotel with both coordinates gives neither.
C6_NoResultsVersusNoPlottablePoints ==
    (ReplyReturned /\ ReplyAirportResolved) =>
        /\ (Finished /\ ReplyHotels = << >>) =>
                /\ Outcomes(shown) = {"NoResults"}
                /\ shown.elements = <<StWarning("No hotels found within",
                        [NoArgs EXCEPT !.name = airport_name, !.km = within_km])>>
        /\ (Finished /\ ReplyHotels # << >> /\ ReplyHotelsAreRecords /\ ~ReplyHasGeolocatedHotel) =>
                /\ Outcomes(shown) = {"NoPlottablePoints"}
                /\ shown.elements = <<StWarning("No hotel coordinates to plot on the map.", NoArgs)>>
        /\ ReplyHasGeolocatedHotel =>
                Outcomes(shown) \cap {"NoResults", "NoPlottablePoints"} = {}

C6_Witness ==
    /\ ReplyReturned
    /\ Finished
    /\ ReplyAirportResolved
    /\ Len(ReplyHotels) = 2
    /\ ~ReplyHasGeolocatedHotel
    /\ Outcomes(shown) = {"NoPlottablePoints"}

Four == {"Success", "NoResults", "ResolutionFailed", "TransportError"}

UserAction ==
    EditEndpoint \/ EditApiKey \/ EditAirportName \/ EditDistance \/ PressSearch \/ PlainRerun

\* The run makes the call of st.button (line 254).
ButtonCalled == phase = "AtButton" /\ phase' \notin {"AtButton", "Stopped"}

\* C3: every search goes Idle -> Requesting -> one of exactly the four
\* outcomes Success, NoResults, ResolutionFailed, TransportError; no other
\* ending is reachable, a finished search is left only by the user, and
\* Requesting is entered only by a run in which Search is pressed.
C3_FourOutcomes ==
    [][ /\ phase' = "Done" =>
                (Cardinality(Outcomes(shown')) = 1 /\ Outcomes(shown') \subseteq Four)
        /\ phase = "Done" => UserAction
        /\ (phase # "Requesting" /\ phase' = "Requesting") => (ButtonCalled /\ pressed) ]_vars

\* C4 as stated: every press of Search sends exactly one query and runs the
\* pipeline once, whatever the settings and the airport name.
C4_OneQueryPerPress ==
    (pc = "page" /\ phase \in {"Idle", "Done"}) => (posts = presses /\ runs = presses)

\* C4, amended: a press of Search never sends more than one query nor runs
\* the pipeline more than once.  A query is sent exactly when a run in which
\* Search is pressed makes the call of st.button with both connection
\* settings and the airport name filled in; with one of them empty the run
\* sends none; a run stopped before st.button sends none.  Every reply is
\* handed to the pipeline once.
C4_OneQueryPerValidPress ==
    /\ [][ /\ posts' - posts = (IF ButtonCalled /\ pressed /\ InputsValid THEN 1 ELSE 0)
           /\ rejected' - rejected = (IF ButtonCalled /\ pressed /\ ~InputsValid THEN 1 ELSE 0)
           /\ runs' - runs = (IF phase = "Requesting" /\ phase' # "Requesting" THEN 1 ELSE 0)
           /\ (presses' # presses) => (PressSearch /\ presses' = presses + 1) ]_vars
    /\ [](pc = "page" => runs = (IF phase = "Requesting" THEN posts - 1 ELSE posts))
    /\ [](pc = "page" => posts + rejected <= presses)

C4_Witness ==
    /\ pc = "page"
    /\ phase = "Done"
    /\ presses = 2
    /\ posts = 1
    /\ runs = 1
    /\ rejected = 0
    /\ Outcomes(shown) = {"Success"}

NumericAt == {i \in 1..Len(arg.reviews.list) :
                /\ arg.reviews.list[i].shape = "ratings"
                /\ arg.reviews.list[i].overall.kind = "num"}

RECURSIVE HalfSum(_)
HalfSum(positions) ==
    IF positions = {} THEN 0
    ELSE LET i == CHOOSE x \in positions : TRUE
         IN arg.reviews.list[i].overall.half + HalfSum(positions \ {i})

RatingInRange == 0 <= ret.num /\ ret.num <= 10 * ret.den

C10_TwiceMeanOfNumericValues ==
    pc = "return" =>
        /\ ~ret.raised
        /\ NumericAt = {} => ret = Rating(Frac(0, 1))
        /\ NumericAt # {} => ret.num * Cardinality(NumericAt) = ret.den * HalfSum(NumericAt)
        /\ (arg.reviews.has /\ arg.reviews.list =
                <<Review(OverallNum(8)), Review(OverallNum(10)), Review(OverallStr)>>)
            => ret = Rating(Frac(9, 1))

\* The input of the scenario: hotels at latitudes 10.0, 10.2 and 10.05, the
\* airport at 10.1, all at one longitude.
ScenarioInput ==
    /\ Len(arg.df_hotels) = 3
    /\ {arg.df_hotels[i].lat : i \in 1..3} = {1000, 1020, 1005}
    /\ arg.airport.shape = "located"
    /\ arg.airport.lat = 1010
    /\ FloatRange(AllCoords(arg.df_hotels, arg.airport, "lon")).n = 0

\* build_map went through, and the computed span is exactly the float literal.
SpanIs(literal) ==
    LET span == MaxRange(arg.df_hotels, arg.airport)
    IN ~ret.raised /\ span.n = literal.n /\ span.e * literal.scale = literal.err

\* C9 as stated: a span equal to a threshold takes the coarser zoom, and the
\* scenario gets zoom 10.
C9_TieTakesCoarserZoom ==
    pc = "return" =>
        /\ ScenarioInput => ret.zoom = 10
        /\ SpanIs(Deg1_0) => ret.zoom = 8
        /\ SpanIs(Deg0_5) => ret.zoom = 9
        /\ SpanIs(Deg0_2) => ret.zoom = 10
        /\ SpanIs(Deg0_1) => ret.zoom = 11

\* C9, amended: the thresholds are compared with ">", so a computed span
\* exactly equal to a threshold takes the finer (higher) zoom (1.0 gives 9,
\* 0.5 gives 10, 0.2 gives 11, 0.1 gives 12), and the scenario, whose
\* computed span does not exceed 0.2, gets zoom 11.
C9_TieTakesFinerZoom ==
    pc = "return" =>
        /\ ScenarioInput => ret.zoom = 11
        /\ SpanIs(Deg1_0) => ret.zoom = 9
        /\ SpanIs(Deg0_5) => ret.zoom = 10
        /\ SpanIs(Deg0_2) => ret.zoom = 11
        /\ SpanIs(Deg0_1) => ret.zoom = 12

C9_Witness ==
    /\ pc = "return"
    /\ ScenarioInput
    /\ arg.df_hotels[1].lat = 1000
    /\ arg.df_hotels[2].lat = 1020
    /\ arg.df_hotels[3].lat = 1005
    /\ ret.zoom = 11

====
